---- MODULE Spec2Model ----
(***************************************************************************)
(* POST /api/osv/vulnerabilities: the cached event handler that queries    *)
(* OSV for a list of packages, its cache-key function getKey, and          *)
(* queryOsvForPackage.                                                     *)
(*                                                                         *)
(* One behaviour is one request: the cached handler first derives the      *)
(* cache key with getKey, then runs the handler; an exception thrown by    *)
(* either ends the request with an error.                                  *)
(*                                                                         *)
(* JavaScript strings are modelled as sequences of one-character strings,  *)
(* so that template rendering, join, sorting and prefixes are computed.    *)
(* JavaScript values are tagged records [t, s, n].                         *)
(***************************************************************************)
EXTENDS Integers, Sequences, FiniteSets

\* ---------------------------------------------------------------- bounds
\* longest packages list enumerated over every entry shape
MaxShort == 2
\* longest packages list of valid entries (23 entries: waves of 10, 10, 3)
MaxLong == 23
\* most upstream lookups of one request that fail or never answer
MaxFaults == 1
\* longest CVSS score string enumerated over every character of the alphabet
MaxScoreLen == 3
\* longest aliases list of an upstream record
MaxAliases == 2
\* longest vulns list of an upstream answer
MaxVulns == 3
\* most calls of checkVulnerabilities of one component
MaxRuns == 2
\* most packuments that one call of checkVulnerabilities cannot fetch
MaxUnfetched == 1

\* ------------------------------------------------------ JavaScript values
Undefined == [t |-> "undefined", s |-> <<>>, n |-> 0]
Null == [t |-> "null", s |-> <<>>, n |-> 0]
Str(s) == [t |-> "string", s |-> s, n |-> 0]
Num(n) == [t |-> "number", s |-> <<>>, n |-> n]

\* ToBoolean of a primitive value
Truthy(v) ==
  CASE v.t = "string" -> v.s # <<>>
    [] v.t = "number" -> v.n # 0
    [] OTHER -> FALSE

DigitChar(d) ==
  CASE d = 0 -> "0" [] d = 1 -> "1" [] d = 2 -> "2" [] d = 3 -> "3"
    [] d = 4 -> "4" [] d = 5 -> "5" [] d = 6 -> "6" [] d = 7 -> "7"
    [] d = 8 -> "8" [] OTHER -> "9"

RECURSIVE NatToString(_)
NatToString(k) ==
  IF k < 10 THEN <<DigitChar(k)>>
  ELSE NatToString(k \div 10) \o <<DigitChar(k % 10)>>

\* ToString(v), as applied by a template literal `${v}` and by localeCompare
ToStr(v) ==
  CASE v.t = "string" -> v.s
    [] v.t = "number" -> NatToString(v.n)
    [] v.t = "null" -> <<"n", "u", "l", "l">>
    [] OTHER -> <<"u", "n", "d", "e", "f", "i", "n", "e", "d">>

\* ------------------------------------------------- elements of `packages`
\* an object {name, version}; a missing field reads as undefined
Obj(name, version) == [t |-> "object", name |-> name, version |-> version]
\* a null element: reading a property of it throws a TypeError
NullElem == [t |-> "null", name |-> Undefined, version |-> Undefined]
\* a primitive element (number, string, boolean): its properties are undefined
PrimElem == [t |-> "primitive", name |-> Undefined, version |-> Undefined]

\* --------------------------------------------------------- request bodies
\* readBody gave nothing
NoBody == [present |-> FALSE, packages |-> [t |-> "undefined", s |-> <<>>, n |-> 0, list |-> <<>>]]
\* body.packages is a primitive value (or missing: undefined)
BodyPrim(v) == [present |-> TRUE, packages |-> [t |-> v.t, s |-> v.s, n |-> v.n, list |-> <<>>]]
\* body.packages is a plain object that is not an array
BodyObject == [present |-> TRUE, packages |-> [t |-> "object", s |-> <<>>, n |-> 0, list |-> <<>>]]
\* body.packages is an array
BodyList(l) == [present |-> TRUE, packages |-> [t |-> "array", s |-> <<>>, n |-> 0, list |-> l]]

\* !body?.packages
PackagesFalsy(b) ==
  \/ ~b.present
  \/ /\ b.packages.t \notin {"array", "object"}
     /\ ~Truthy(b.packages)

IsArray(b) == b.present /\ b.packages.t = "array"

\* ------------------------------------------------------------- getKey
S_osv_empty == <<"o", "s", "v", ":", "e", "m", "p", "t", "y">>
S_osv_v1 == <<"o", "s", "v", ":", "v", "1", ":">>

\* primary collation weight of a character: punctuation sorts before digits,
\* digits before letters
CharRank(c) ==
  CASE c = "," -> 1 [] c = "@" -> 2
    [] c = "0" -> 10 [] c = "1" -> 11 [] c = "2" -> 12 [] c = "3" -> 13
    [] c = "4" -> 14 [] c = "5" -> 15 [] c = "6" -> 16 [] c = "7" -> 17
    [] c = "8" -> 18 [] c = "9" -> 19
    [] c = "a" -> 20 [] c = "b" -> 21
    [] OTHER -> 30

\* x.localeCompare(y) on two strings: negative, zero or positive
RECURSIVE localeCompare(_, _)
localeCompare(x, y) ==
  IF x = <<>> THEN (IF y = <<>> THEN 0 ELSE -1)
  ELSE IF y = <<>> THEN 1
  ELSE IF CharRank(Head(x)) < CharRank(Head(y)) THEN -1
  ELSE IF CharRank(Head(x)) > CharRank(Head(y)) THEN 1
  ELSE localeCompare(Tail(x), Tail(y))

\* the comparator (a, b) => a.name.localeCompare(b.name); localeCompare
\* converts its argument to a string
CompareByName(a, b) == localeCompare(ToStr(a.name), ToStr(b.name))

\* Array.prototype.sort is stable: an element goes after every element that
\* does not compare greater than it
RECURSIVE InsertByName(_, _)
InsertByName(sorted, e) ==
  IF sorted = <<>> THEN <<e>>
  ELSE IF CompareByName(e, Head(sorted)) < 0 THEN <<e>> \o sorted
  ELSE <<Head(sorted)>> \o InsertByName(Tail(sorted), e)

RECURSIVE SortByName(_)
SortByName(l) ==
  IF l = <<>> THEN <<>>
  ELSE InsertByName(SortByName(SubSeq(l, 1, Len(l) - 1)), l[Len(l)])

\* `${p.name}@${p.version}`
RenderPackage(p) == ToStr(p.name) \o <<"@">> \o ToStr(p.version)

\* .map(render).join(',')
RECURSIVE JoinPackages(_)
JoinPackages(l) ==
  IF l = <<>> THEN <<>>
  ELSE IF Len(l) = 1 THEN RenderPackage(l[1])
  ELSE RenderPackage(l[1]) \o <<",">> \o JoinPackages(Tail(l))

\* getKey's filter: p => p.name && p.version
KeyFilter(p) == Truthy(p.name) /\ Truthy(p.version)

KeyOf(k) == [kind |-> "key", key |-> k]
KeyThrows == [kind |-> "throw", key |-> <<>>]
NoKey == [kind |-> "none", key |-> <<>>]

\* [...body.packages] of an array or of a string (one primitive per character)
SpreadPackages(b) ==
  IF b.packages.t = "array" THEN b.packages.list
  ELSE [k \in 1..Len(b.packages.s) |-> PrimElem]

\* What getKey can give for a body: a key, or a TypeError.  The order in
\* which sort hands elements to the comparator is implementation-defined, so
\* with two or more kept entries a name that is not a string may or may not
\* be the receiver of localeCompare; when every kept name is not a string
\* the call throws.
GetKeyOutcomes(b) ==
  IF PackagesFalsy(b) THEN {KeyOf(S_osv_empty)}
  ELSE IF b.packages.t \in {"number", "object"} THEN {KeyThrows}
  ELSE LET arr == SpreadPackages(b) IN
    IF \E k \in 1..Len(arr) : arr[k].t = "null" THEN {KeyThrows}
    ELSE LET kept == SelectSeq(arr, KeyFilter)
             nonStr == {k \in 1..Len(kept) : kept[k].name.t # "string"}
             rendered == KeyOf(S_osv_v1 \o JoinPackages(SortByName(kept)))
         IN IF Len(kept) >= 2 /\ nonStr # {}
            THEN {KeyThrows} \cup (IF nonStr # 1..Len(kept) THEN {rendered} ELSE {})
            ELSE {rendered}

\* ------------------------------------------------- raw OSV records
\* a record of response.vulns; optional fields read as undefined
RawVuln(id, summary, aliases, dbSeverity, scores) ==
  [id |-> id, summary |-> summary, aliases |-> aliases,
   dbSeverity |-> dbSeverity, severity |-> scores]
NoAliases == [present |-> FALSE, list |-> <<>>]
Aliases(l) == [present |-> TRUE, list |-> l]

S_critical == <<"c", "r", "i", "t", "i", "c", "a", "l">>
S_high == <<"h", "i", "g", "h">>
S_moderate == <<"m", "o", "d", "e", "r", "a", "t", "e">>
S_medium == <<"m", "e", "d", "i", "u", "m">>
S_low == <<"l", "o", "w">>

LowerChar(c) ==
  CASE c = "A" -> "a" [] c = "B" -> "b" [] c = "C" -> "c" [] c = "D" -> "d"
    [] c = "E" -> "e" [] c = "F" -> "f" [] c = "G" -> "g" [] c = "H" -> "h"
    [] c = "I" -> "i" [] c = "J" -> "j" [] c = "K" -> "k" [] c = "L" -> "l"
    [] c = "M" -> "m" [] c = "N" -> "n" [] c = "O" -> "o" [] c = "P" -> "p"
    [] c = "Q" -> "q" [] c = "R" -> "r" [] c = "S" -> "s" [] c = "T" -> "t"
    [] c = "U" -> "u" [] c = "V" -> "v" [] c = "W" -> "w" [] c = "X" -> "x"
    [] c = "Y" -> "y" [] c = "Z" -> "z" [] OTHER -> c

toLowerCase(x) == [k \in 1..Len(x) |-> LowerChar(x[k])]

Digits == {"0", "1", "2", "3", "4", "5", "6", "7", "8", "9"}

DigitVal(c) ==
  CASE c = "0" -> 0 [] c = "1" -> 1 [] c = "2" -> 2 [] c = "3" -> 3
    [] c = "4" -> 4 [] c = "5" -> 5 [] c = "6" -> 6 [] c = "7" -> 7
    [] c = "8" -> 8 [] OTHER -> 9

AllDigits(x) == Len(x) > 0 /\ \A k \in 1..Len(x) : x[k] \in Digits

\* the part of the score matched by group 1 of /(?:^|[/:])(\d+(?:\.\d+)?)$/:
\* a match can only start at the string start or right after the last '/' or
\* ':', and must run to the end; <<>> when there is no match
ScoreMatch(x) ==
  LET seps == {k \in 1..Len(x) : x[k] \in {"/", ":"}}
      last == IF seps = {} THEN 0 ELSE CHOOSE k \in seps : \A m \in seps : m <= k
      tail == SubSeq(x, last + 1, Len(x))
      dots == {k \in 1..Len(tail) : tail[k] = "."}
  IN IF AllDigits(tail) THEN tail
     ELSE IF /\ Cardinality(dots) = 1
             /\ LET d == CHOOSE k \in dots : TRUE
                IN AllDigits(SubSeq(tail, 1, d - 1)) /\ AllDigits(SubSeq(tail, d + 1, Len(tail)))
          THEN tail
          ELSE <<>>

RECURSIVE DigitsValue(_)
DigitsValue(x) ==
  IF x = <<>> THEN 0 ELSE 10 * DigitsValue(SubSeq(x, 1, Len(x) - 1)) + DigitVal(x[Len(x)])

\* parseFloat of a matched decimal, as its integer part and whether the
\* fraction is non-zero
ParsedScore(m) ==
  LET dots == {k \in 1..Len(m) : m[k] = "."}
      d == IF dots = {} THEN Len(m) + 1 ELSE CHOOSE k \in dots : TRUE
  IN [int |-> DigitsValue(SubSeq(m, 1, d - 1)),
      frac |-> \E k \in (d + 1)..Len(m) : m[k] # "0"]

\* mutant of getSeverityLevel: the last threshold is score >= 0
getSeverityLevel_zeroIsLow(vuln) ==
  LET dbSeverity == IF vuln.dbSeverity.t = "string" THEN toLowerCase(vuln.dbSeverity.s) ELSE <<>>
      score == IF Len(vuln.severity) > 0 THEN vuln.severity[1].score ELSE Undefined
      m == IF Truthy(score) THEN ScoreMatch(score.s) ELSE <<>>
      sc == ParsedScore(m)
  IN IF dbSeverity = S_critical THEN "critical"
     ELSE IF dbSeverity = S_high THEN "high"
     ELSE IF dbSeverity = S_moderate \/ dbSeverity = S_medium THEN "moderate"
     ELSE IF dbSeverity = S_low THEN "low"
     ELSE IF m = <<>> THEN "unknown"
     ELSE IF sc.int >= 9 THEN "critical"
     ELSE IF sc.int >= 7 THEN "high"
     ELSE IF sc.int >= 4 THEN "moderate"
     ELSE "low"

\* getSeverityLevel (lines 164-188)
getSeverityLevel(vuln) ==
  LET dbSeverity == IF vuln.dbSeverity.t = "string" THEN toLowerCase(vuln.dbSeverity.s) ELSE <<>>
      score == IF Len(vuln.severity) > 0 THEN vuln.severity[1].score ELSE Undefined
      m == IF Truthy(score) THEN ScoreMatch(score.s) ELSE <<>>
      sc == ParsedScore(m)
  IN IF dbSeverity = S_critical THEN "critical"
     ELSE IF dbSeverity = S_high THEN "high"
     ELSE IF dbSeverity = S_moderate \/ dbSeverity = S_medium THEN "moderate"
     ELSE IF dbSeverity = S_low THEN "low"
     ELSE IF m = <<>> THEN "unknown"
     ELSE IF sc.int >= 9 THEN "critical"
     ELSE IF sc.int >= 7 THEN "high"
     ELSE IF sc.int >= 4 THEN "moderate"
     ELSE IF sc.int > 0 \/ sc.frac THEN "low"
     ELSE "unknown"

S_GHSA == <<"G", "H", "S", "A", "-">>
S_CVE == <<"C", "V", "E", "-">>
S_url_github == <<"h", "t", "t", "p", "s", ":", "/", "/", "g", "i", "t", "h", "u", "b", ".", "c", "o", "m", "/", "a", "d", "v", "i", "s", "o", "r", "i", "e", "s", "/">>
S_url_nvd == <<"h", "t", "t", "p", "s", ":", "/", "/", "n", "v", "d", ".", "n", "i", "s", "t", ".", "g", "o", "v", "/", "v", "u", "l", "n", "/", "d", "e", "t", "a", "i", "l", "/">>
S_url_osv == <<"h", "t", "t", "p", "s", ":", "/", "/", "o", "s", "v", ".", "d", "e", "v", "/", "v", "u", "l", "n", "e", "r", "a", "b", "i", "l", "i", "t", "y", "/">>
S_no_description == <<"N", "o", " ", "d", "e", "s", "c", "r", "i", "p", "t", "i", "o", "n", " ", "a", "v", "a", "i", "l", "a", "b", "l", "e">>

startsWith(x, prefix) == Len(x) >= Len(prefix) /\ SubSeq(x, 1, Len(prefix)) = prefix

\* mutant of getVulnerabilityUrl: the CVE alias is looked for first
getVulnerabilityUrl_cveFirst(vuln) ==
  LET cves == {k \in 1..Len(vuln.aliases.list) : startsWith(vuln.aliases.list[k], S_CVE)}
  IN IF vuln.aliases.present /\ cves # {}
     THEN S_url_nvd \o vuln.aliases.list[CHOOSE k \in cves : \A m \in cves : k <= m]
     ELSE IF startsWith(vuln.id, S_GHSA) THEN S_url_github \o vuln.id
          ELSE S_url_osv \o vuln.id

\* getVulnerabilityUrl (lines 153-162)
getVulnerabilityUrl(vuln) ==
  LET cves == {k \in 1..Len(vuln.aliases.list) : startsWith(vuln.aliases.list[k], S_CVE)}
  IN IF startsWith(vuln.id, S_GHSA) THEN S_url_github \o vuln.id
     ELSE IF vuln.aliases.present /\ cves # {}
          THEN S_url_nvd \o vuln.aliases.list[CHOOSE k \in cves : \A m \in cves : k <= m]
          ELSE S_url_osv \o vuln.id

severityOrder(level) ==
  CASE level = "critical" -> 0 [] level = "high" -> 1 [] level = "moderate" -> 2
    [] level = "low" -> 3 [] OTHER -> 4

\* mutant of InsertBySeverity: a record goes before the records of its own
\* severity
RECURSIVE InsertBySeverity_beforeTies(_, _)
InsertBySeverity_beforeTies(sorted, e) ==
  IF sorted = <<>> THEN <<e>>
  ELSE IF severityOrder(getSeverityLevel(e)) - severityOrder(getSeverityLevel(Head(sorted))) <= 0
       THEN <<e>> \o sorted
  ELSE <<Head(sorted)>> \o InsertBySeverity_beforeTies(Tail(sorted), e)

\* [...vulns].sort(by severityOrder): stable
RECURSIVE InsertBySeverity(_, _)
InsertBySeverity(sorted, e) ==
  IF sorted = <<>> THEN <<e>>
  ELSE IF severityOrder(getSeverityLevel(e)) - severityOrder(getSeverityLevel(Head(sorted))) < 0
       THEN <<e>> \o sorted
  ELSE <<Head(sorted)>> \o InsertBySeverity(Tail(sorted), e)

RECURSIVE SortBySeverity(_)
SortBySeverity(l) ==
  IF l = <<>> THEN <<>>
  ELSE InsertBySeverity(SortBySeverity(SubSeq(l, 1, Len(l) - 1)), l[Len(l)])

VulnerabilitySummary(vuln) ==
  [id |-> vuln.id,
   summary |-> IF Truthy(vuln.summary) THEN vuln.summary.s ELSE S_no_description,
   severity |-> getSeverityLevel(vuln),
   aliases |-> IF vuln.aliases.present THEN vuln.aliases.list ELSE <<>>,
   url |-> getVulnerabilityUrl(vuln)]

\* mutant of CountLevel: the last branch of the tally is a plain else
CountLevel_elseLow(l, level) ==
  Cardinality({k \in 1..Len(l) :
                 \/ getSeverityLevel(l[k]) = level
                 \/ level = "low" /\ getSeverityLevel(l[k]) = "unknown"})

\* the tally of one severity (lines 125-130)
CountLevel(l, level) == Cardinality({k \in 1..Len(l) : getSeverityLevel(l[k]) = level})

ZeroCounts == [total |-> 0, critical |-> 0, high |-> 0, moderate |-> 0, low |-> 0]

\* the null that queryOsvForPackage returns
NullInfo ==
  [t |-> "null", package |-> <<>>, version |-> <<>>, vulnerabilities |-> <<>>,
   counts |-> ZeroCounts]

\* ------------------------------------------------------ upstream answers
\* $fetch rejected: network error or non-2xx status; or the payload is not
\* an object; or the payload is JSON with an optional vulns list
NetworkError == [kind |-> "networkError", hasVulns |-> FALSE, vulns |-> <<>>]
HttpError == [kind |-> "httpError", hasVulns |-> FALSE, vulns |-> <<>>]
Malformed == [kind |-> "malformed", hasVulns |-> FALSE, vulns |-> <<>>]
JsonNoVulns == [kind |-> "json", hasVulns |-> FALSE, vulns |-> <<>>]
Json(vulns) == [kind |-> "json", hasVulns |-> TRUE, vulns |-> vulns]

\* queryOsvForPackage, given what $fetch produced
queryOsvForPackage(name, version, r) ==
  IF r.kind # "json" THEN NullInfo
  ELSE LET vulns == IF r.hasVulns THEN r.vulns ELSE <<>>
           sortedVulns == SortBySeverity(vulns)
       IN IF Len(vulns) = 0 THEN NullInfo
          ELSE [t |-> "object",
                package |-> name,
                version |-> version,
                vulnerabilities |-> [k \in 1..Len(sortedVulns) |-> VulnerabilitySummary(sortedVulns[k])],
                counts |-> [total |-> Len(vulns),
                            critical |-> CountLevel(sortedVulns, "critical"),
                            high |-> CountLevel(sortedVulns, "high"),
                            moderate |-> CountLevel(sortedVulns, "moderate"),
                            low |-> CountLevel(sortedVulns, "low")]]

\* ------------------------------------------- what the OSV database holds
V_ghsa_high ==
  RawVuln(<<"G", "H", "S", "A", "-", "1">>, Str(<<"x">>), Aliases(<<<<"C", "V", "E", "-", "1">>>>), Str(<<"H", "I", "G", "H">>), <<>>)
V_cvss_critical ==
  RawVuln(<<"O", "-", "2">>, Undefined, Aliases(<<<<"X", "-", "1">>, <<"C", "V", "E", "-", "2">>>>), Undefined,
          <<[score |-> Str(<<"C", "V", "S", "S", ":", "3", ".", "1", "/", "9", ".", "8">>)]>>)
V_vector_unknown ==
  RawVuln(<<"O", "-", "3">>, Undefined, NoAliases, Str(<<"n", "/", "a">>),
          <<[score |-> Str(<<"C", "V", "S", "S", ":", "3", ".", "1", "/", "A", "V", ":", "N">>)]>>)
V_medium ==
  RawVuln(<<"O", "-", "4">>, Str(<<"y">>), Aliases(<<>>), Str(<<"M", "e", "d", "i", "u", "m">>), <<>>)
V_zero ==
  RawVuln(<<"O", "-", "5">>, Undefined, NoAliases, Undefined, <<[score |-> Str(<<"0">>)]>>)

S_a == <<"a">>
S_b == <<"b">>
S_1 == <<"1">>
S_2 == <<"2">>
S_3 == <<"3">>
\* a version holding the key's separators
S_1_b_2 == <<"1", ",", "b", "@", "2">>

\* the payload that https://api.osv.dev/v1/query answers for a package
OsvDatabase(name, version) ==
  CASE name = S_a /\ version = S_1 -> Json(<<V_vector_unknown, V_ghsa_high>>)
    [] name = S_a /\ version = S_2 -> Json(<<>>)
    [] name = S_a /\ version = S_3 -> Json(<<V_cvss_critical>>)
    [] name = S_b /\ version = S_1 -> Json(<<V_medium, V_zero>>)
    [] name = S_b /\ version = S_2 -> JsonNoVulns
    [] OTHER -> Json(<<>>)

\* what $fetch can produce for one lookup that answers
UpstreamAnswers(name, version) ==
  {NetworkError, HttpError, Malformed, OsvDatabase(name, version)}

\* ------------------------------------------------------- request inputs
ValidEntries ==
  <<Obj(Str(S_a), Str(S_1)), Obj(Str(S_a), Str(S_2)), Obj(Str(S_b), Str(S_1)),
    Obj(Str(S_a), Str(S_3)), Obj(Str(S_b), Str(S_2))>>

Entries ==
  {ValidEntries[k] : k \in 1..Len(ValidEntries)} \cup
  {NullElem, PrimElem,
   Obj(Undefined, Str(S_1)), Obj(Str(<<>>), Str(S_1)), Obj(Num(5), Str(S_1)),
   Obj(Str(S_a), Undefined), Obj(Str(S_a), Str(<<>>)), Obj(Str(S_a), Num(1)),
   Obj(Str(S_a), Str(S_1_b_2))}

ShortLists == UNION {[1..n -> Entries] : n \in 0..MaxShort}

\* n valid entries cycling through ValidEntries, with an invalid entry after
\* every fourth
RECURSIVE LongList(_)
LongList(n) ==
  IF n = 0 THEN <<>>
  ELSE LongList(n - 1) \o <<ValidEntries[((n - 1) % Len(ValidEntries)) + 1]>>
       \o (IF n % 4 = 0 THEN <<Obj(Str(S_a), Str(<<>>))>> ELSE <<>>)

batchSize == 10

LongLens == {batchSize, batchSize + 1, MaxLong}

S_not_a_list == <<"n", "o", "t", "-", "a", "-", "l", "i", "s", "t">>

Bodies ==
  {NoBody, BodyObject,
   BodyPrim(Undefined), BodyPrim(Null), BodyPrim(Str(<<>>)), BodyPrim(Num(0)),
   BodyPrim(Str(S_not_a_list)), BodyPrim(Num(5))}
  \cup {BodyList(l) : l \in ShortLists}
  \cup {BodyList(LongList(n)) : n \in LongLens}

\* ------------------------------------------------------------ the state
VARIABLES
  body,           \* what readBody gives for the request
  pc,             \* "getKey", "handler", "await" (inside Promise.all), "done"
  key,            \* what getKey gave
  validPackages,  \* the handler's filtered list
  i,              \* the batch loop's index
  lookup,         \* per entry of validPackages, its queryOsvForPackage promise
  results,        \* the handler's result record, a function of package name
  response,       \* what the request ends with
  waves,          \* history: the size of every batch handed to Promise.all
  rawVulns,       \* response.vulns of one upstream answer
  firstLevel,     \* what getSeverityLevel returned for rawVulns[1]
  firstUrl,       \* what getVulnerabilityUrl returned for rawVulns[1]
  queried,        \* what queryOsvForPackage returned for rawVulns
  dependencies,   \* toValue(dependencies): the component's dependencies prop
  watched,        \* the value the watcher last ran its callback with
  runs,           \* the calls of checkVulnerabilities, in the order they started
  vulnerable      \* vulnerable.value

\* the state of one call of the normalisation functions
fnVars == <<rawVulns, firstLevel, firstUrl, queried>>

\* the state of useVulnerableDependencies
depVars == <<dependencies, watched, runs, vulnerable>>

vars ==
  <<body, pc, key, validPackages, i, lookup, results, response, waves, fnVars, depVars>>

EmptyMap == [x \in {} |-> NullInfo]

NoResponse == [kind |-> "none", statusCode |-> 0, message |-> "", results |-> EmptyMap]
BadRequest ==
  [kind |-> "error", statusCode |-> 400,
   message |-> "Request body must contain a packages array", results |-> EmptyMap]
\* an uncaught TypeError ends the request with a server error
TypeErrorResponse ==
  [kind |-> "error", statusCode |-> 500, message |-> "TypeError", results |-> EmptyMap]
Ok(res) == [kind |-> "ok", statusCode |-> 200, message |-> "", results |-> res]

Promise(st, info) == [st |-> st, info |-> info]

\* a function's result that is not there yet, and one that is
NotReturned == [returned |-> FALSE, value |-> <<>>]
Returned(v) == [returned |-> TRUE, value |-> v]

\* no call of the normalisation functions is under way
FnIdle ==
  /\ rawVulns = <<>>
  /\ firstLevel = NotReturned
  /\ firstUrl = NotReturned
  /\ queried = NotReturned

\* dependencies when the prop is not passed
NoDeps == [t |-> "undefined", entries |-> <<>>]

\* the composable is not in use
DepsIdle ==
  /\ dependencies = NoDeps
  /\ watched = NoDeps
  /\ runs = <<>>
  /\ vulnerable = EmptyMap

Init ==
  /\ body \in Bodies
  /\ pc = "getKey"
  /\ key = NoKey
  /\ validPackages = <<>>
  /\ i = 0
  /\ lookup = <<>>
  /\ results = EmptyMap
  /\ response = NoResponse
  /\ waves = <<>>
  /\ FnIdle
  /\ DepsIdle

\* the handler's filter (lines 39-42)
IsValidPackage(pkg) ==
  /\ Truthy(pkg.name) /\ pkg.name.t = "string"
  /\ Truthy(pkg.version) /\ pkg.version.t = "string"

\* mutant of BatchIndices: the slice has no end
BatchIndices_noEnd(vp, from) == {j \in 1..Len(vp) : from < j}

\* validPackages.slice(from, from + batchSize), as 1-based positions
BatchIndices(vp, from) == {j \in 1..Len(vp) : from < j /\ j <= from + batchSize}

\* batch.map(async pkg => queryOsvForPackage(...)): every lookup of the
\* batch is started
StartBatch(lk, vp, from) ==
  [j \in 1..Len(vp) |->
     IF j \in BatchIndices(vp, from) THEN Promise("pending", NullInfo) ELSE lk[j]]

InFlight == {j \in 1..Len(lookup) : lookup[j].st \in {"pending", "hung"}}
Faults == {j \in 1..Len(lookup) : lookup[j].st \in {"failed", "hung"}}

\* results[name] = info
Put(res, name, info) ==
  [n \in DOMAIN res \cup {name} |-> IF n = name THEN info ELSE res[n]]

\* mutant of MergeBatch: a name already in the map is not overwritten
RECURSIVE MergeBatch_firstWins(_, _, _, _, _)
MergeBatch_firstWins(res, lk, vp, j, last) ==
  IF j > last THEN res
  ELSE MergeBatch_firstWins(
         IF lk[j].info.t # "null" /\ vp[j].name.s \notin DOMAIN res
         THEN Put(res, vp[j].name.s, lk[j].info) ELSE res,
         lk, vp, j + 1, last)

\* for (const { name, info } of batchResults) if (info) results[name] = info
RECURSIVE MergeBatch(_, _, _, _, _)
MergeBatch(res, lk, vp, j, last) ==
  IF j > last THEN res
  ELSE MergeBatch(IF lk[j].info.t # "null" THEN Put(res, vp[j].name.s, lk[j].info) ELSE res,
                  lk, vp, j + 1, last)

\* the cached handler derives the cache key of the request
GetKey ==
  /\ pc = "getKey"
  /\ \E o \in GetKeyOutcomes(body) :
       /\ key' = o
       /\ pc' = IF o.kind = "throw" THEN "done" ELSE "handler"
       /\ response' = IF o.kind = "throw" THEN TypeErrorResponse ELSE response
  /\ UNCHANGED <<body, validPackages, i, lookup, results, waves, fnVars, depVars>>

\* the handler up to its first await of Promise.all
HandlerStart ==
  /\ pc = "handler"
  /\ IF PackagesFalsy(body) \/ ~IsArray(body)
     THEN /\ response' = BadRequest
          /\ pc' = "done"
          /\ UNCHANGED <<validPackages, i, lookup, results, waves>>
     ELSE IF \E k \in 1..Len(body.packages.list) : body.packages.list[k].t = "null"
     THEN /\ response' = TypeErrorResponse
          /\ pc' = "done"
          /\ UNCHANGED <<validPackages, i, lookup, results, waves>>
     ELSE LET vp == SelectSeq(body.packages.list, IsValidPackage) IN
          /\ validPackages' = vp
          /\ IF Len(vp) = 0
             THEN /\ response' = Ok(EmptyMap)
                  /\ pc' = "done"
                  /\ UNCHANGED <<i, lookup, results, waves>>
             ELSE /\ results' = EmptyMap
                  /\ i' = 0
                  /\ lookup' = StartBatch([j \in 1..Len(vp) |-> Promise("idle", NullInfo)], vp, 0)
                  /\ waves' = Append(waves, Cardinality(BatchIndices(vp, 0)))
                  /\ pc' = "await"
                  /\ UNCHANGED response
  /\ UNCHANGED <<body, key, fnVars, depVars>>

\* queryOsvForPackage tabulated over the packages a request can look up and
\* over what $fetch can produce for them
QueryOutcome ==
  [p \in {<<e.name.s, e.version.s>> : e \in {x \in Entries : IsValidPackage(x)}} |->
     [r \in UpstreamAnswers(p[1], p[2]) |-> queryOsvForPackage(p[1], p[2], r)]]

\* $fetch of lookup j settles and queryOsvForPackage returns
Complete(j) ==
  /\ pc = "await"
  /\ lookup[j].st = "pending"
  /\ \E r \in {a \in UpstreamAnswers(validPackages[j].name.s, validPackages[j].version.s) :
                a.kind = "json" \/ Cardinality(Faults) < MaxFaults} :
       lookup' = [lookup EXCEPT ![j] =
         Promise(IF r.kind = "json" THEN "fulfilled" ELSE "failed",
                 QueryOutcome[<<validPackages[j].name.s, validPackages[j].version.s>>][r])]
  /\ UNCHANGED <<body, pc, key, validPackages, i, results, response, waves, fnVars, depVars>>

\* the upstream never answers lookup j: $fetch is called without a timeout
\* or abort signal, so its promise never settles
NoAnswer(j) ==
  /\ pc = "await"
  /\ lookup[j].st = "pending"
  /\ Cardinality(Faults) < MaxFaults
  /\ lookup' = [lookup EXCEPT ![j] = Promise("hung", NullInfo)]
  /\ UNCHANGED <<body, pc, key, validPackages, i, results, response, waves, fnVars, depVars>>

\* mutant of WaveJoined: the loop goes on as soon as one lookup of the batch
\* has settled
WaveJoined_firstSettled ==
  /\ pc = "await"
  /\ \E j \in BatchIndices(validPackages, i) : lookup[j].st \in {"fulfilled", "failed"}
  /\ LET merged == MergeBatch(results, lookup, validPackages, i + 1,
                              i + Cardinality(BatchIndices(validPackages, i)))
     IN /\ results' = merged
        /\ i' = i + batchSize
        /\ IF i + batchSize < Len(validPackages)
           THEN /\ lookup' = StartBatch(lookup, validPackages, i + batchSize)
                /\ waves' = Append(waves, Cardinality(BatchIndices(validPackages, i + batchSize)))
                /\ UNCHANGED <<pc, response>>
           ELSE /\ response' = Ok(merged)
                /\ pc' = "done"
                /\ UNCHANGED <<lookup, waves>>
  /\ UNCHANGED <<body, key, validPackages, fnVars, depVars>>

\* Promise.all resolves: merge the batch, then start the next batch or return
WaveJoined ==
  /\ pc = "await"
  /\ \A j \in BatchIndices(validPackages, i) : lookup[j].st \in {"fulfilled", "failed"}
  /\ LET merged == MergeBatch(results, lookup, validPackages, i + 1,
                              i + Cardinality(BatchIndices(validPackages, i)))
     IN /\ results' = merged
        /\ i' = i + batchSize
        /\ IF i + batchSize < Len(validPackages)
           THEN /\ lookup' = StartBatch(lookup, validPackages, i + batchSize)
                /\ waves' = Append(waves, Cardinality(BatchIndices(validPackages, i + batchSize)))
                /\ UNCHANGED <<pc, response>>
           ELSE /\ response' = Ok(merged)
                /\ pc' = "done"
                /\ UNCHANGED <<lookup, waves>>
  /\ UNCHANGED <<body, key, validPackages, fnVars, depVars>>

Next ==
  \/ GetKey
  \/ HandlerStart
  \/ \E j \in 1..Len(lookup) : Complete(j)
  \/ \E j \in 1..Len(lookup) : NoAnswer(j)
  \/ WaveJoined

Spec == Init /\ [][Next]_vars

\* the requests whose list is one of the short ones
InitShort ==
  /\ Init
  /\ Len(body.packages.list) <= MaxShort

\* the event loop runs every step that is ready
FairSpec == InitShort /\ [][Next]_vars /\ WF_vars(Next)

\* ------------------------------------- the normalisation functions alone
\* upstream records for one call of getSeverityLevel, getVulnerabilityUrl and
\* queryOsvForPackage

\* score strings: every string of up to MaxScoreLen characters of the
\* alphabet, and some longer ones
ScoreAlphabet == {"0", "4", "7", "9", ".", "/", ":", "x"}

ScoreSamples ==
  {<<"C", "V", "S", "S", ":", "3", ".", "1", "/", "9", ".", "8">>,
   <<"C", "V", "S", "S", ":", "3", ".", "1", "/", "A", "V", ":", "N">>,
   <<"1", "0", ".", "0">>, <<"3", ".", "9">>, <<"6", ".", "9">>, <<"8", ".", "9">>,
   <<"0", ".", "0", "0">>, <<"0", ".", "0", "1">>, <<"0", "0", "9">>}

ScoreStrings ==
  UNION {[1..n -> ScoreAlphabet] : n \in 0..MaxScoreLen} \cup ScoreSamples

\* vuln.severity: absent or empty, one entry with or without a score, or two
\* entries
SeverityLists ==
  {<<>>, <<[score |-> Undefined]>>}
  \cup {<<[score |-> Str(x)]>> : x \in ScoreStrings}
  \cup {<<[score |-> Str(x)], [score |-> Str(y)]>> : x, y \in ScoreSamples}

FewSeverityLists ==
  {<<>>} \cup {<<[score |-> Str(x)]>> : x \in ScoreSamples \cup {<<"0">>, <<"x">>}}

\* vuln.database_specific?.severity
RecognizedDbSeverities ==
  {Str(<<"c", "r", "i", "t", "i", "c", "a", "l">>), Str(<<"C", "R", "I", "T", "I", "C", "A", "L">>),
   Str(<<"h", "i", "g", "h">>), Str(<<"H", "i", "g", "h">>),
   Str(<<"m", "o", "d", "e", "r", "a", "t", "e">>), Str(<<"M", "O", "D", "E", "R", "A", "T", "E">>),
   Str(<<"m", "e", "d", "i", "u", "m">>), Str(<<"M", "e", "d", "i", "u", "m">>),
   Str(<<"l", "o", "w">>), Str(<<"L", "O", "W">>)}

OtherDbSeverities ==
  {Undefined, Str(<<>>), Str(<<"n", "/", "a">>), Str(<<"l", "o", "w", "e", "r">>),
   Str(<<"h", "i", "g">>)}

S_O_0 == <<"O", "-", "0">>

SeverityProbes ==
  {RawVuln(S_O_0, Undefined, NoAliases, db, sev) :
     db \in OtherDbSeverities, sev \in SeverityLists}
  \cup {RawVuln(S_O_0, Undefined, NoAliases, db, sev) :
          db \in RecognizedDbSeverities, sev \in FewSeverityLists}

\* ids and alias lists
ProbeIds ==
  {<<"G", "H", "S", "A", "-", "1">>, <<"G", "H", "S", "A", "-">>, <<"G", "H", "S", "A">>,
   <<"g", "h", "s", "a", "-", "1">>, <<"C", "V", "E", "-", "7">>, <<"O", "-", "2">>, <<>>}

AliasPool ==
  {<<"C", "V", "E", "-", "1">>, <<"C", "V", "E", "-", "2">>, <<"X", "-", "1">>,
   <<"c", "v", "e", "-", "3">>, <<"C", "V", "E">>, <<"G", "H", "S", "A", "-", "9">>, <<>>}

AliasLists ==
  {NoAliases} \cup {Aliases(l) : l \in UNION {[1..n -> AliasPool] : n \in 0..MaxAliases}}

UrlProbes ==
  {RawVuln(id, Undefined, al, Undefined, <<>>) : id \in ProbeIds, al \in AliasLists}

\* records of every severity, two of them high and two unknown
V_low ==
  RawVuln(<<"O", "-", "6">>, Undefined, NoAliases, Undefined, <<[score |-> Str(<<"0", ".", "1">>)]>>)
V_high2 ==
  RawVuln(<<"O", "-", "7">>, Str(<<"z">>), NoAliases, Undefined, <<[score |-> Str(<<"7">>)]>>)

VulnPool ==
  {V_ghsa_high, V_cvss_critical, V_vector_unknown, V_medium, V_zero, V_low, V_high2}

VulnLists == UNION {[1..n -> VulnPool] : n \in 0..MaxVulns}

\* the request handler is not running
HandlerIdle ==
  /\ body = NoBody
  /\ pc = "idle"
  /\ key = NoKey
  /\ validPackages = <<>>
  /\ i = 0
  /\ lookup = <<>>
  /\ results = EmptyMap
  /\ response = NoResponse
  /\ waves = <<>>

handlerVars == <<body, pc, key, validPackages, i, lookup, results, response, waves>>

FnInit ==
  /\ HandlerIdle
  /\ rawVulns \in {<<v>> : v \in SeverityProbes \cup UrlProbes} \cup VulnLists
  /\ firstLevel = NotReturned
  /\ firstUrl = NotReturned
  /\ queried = NotReturned
  /\ DepsIdle

\* getSeverityLevel(vuln) for the first record
Classify ==
  /\ Len(rawVulns) > 0
  /\ ~firstLevel.returned
  /\ firstLevel' = Returned(getSeverityLevel(rawVulns[1]))
  /\ UNCHANGED <<handlerVars, rawVulns, firstUrl, queried, depVars>>

\* getVulnerabilityUrl(vuln) for the first record
Link ==
  /\ Len(rawVulns) > 0
  /\ ~firstUrl.returned
  /\ firstUrl' = Returned(getVulnerabilityUrl(rawVulns[1]))
  /\ UNCHANGED <<handlerVars, rawVulns, firstLevel, queried, depVars>>

\* queryOsvForPackage(name, version) when upstream answers { vulns: rawVulns }
Query ==
  /\ ~queried.returned
  /\ queried' = Returned(queryOsvForPackage(S_a, S_1, Json(rawVulns)))
  /\ UNCHANGED <<handlerVars, rawVulns, firstLevel, firstUrl, depVars>>

FnNext ==
  \/ Classify
  \/ Link
  \/ Query

FnSpec == FnInit /\ [][FnNext]_vars

\* ------------------------------------------- useVulnerableDependencies
\* a dependencies record, as Object.entries gives it
Deps(entries) == [t |-> "object", entries |-> entries]
Dep(name, constraint) == [name |-> name, constraint |-> constraint]

S_caret_1 == <<"^", "1">>
S_git == <<"g", "i", "t", "+", "s", "s", "h">>
S_c == <<"c">>
S_d == <<"d">>
S_e == <<"e">>
S_f == <<"f">>

DepsChoices ==
  {NoDeps,
   Deps(<<>>),
   Deps(<<Dep(S_a, S_caret_1)>>),
   Deps(<<Dep(S_b, S_caret_1), Dep(S_c, S_git)>>),
   Deps(<<Dep(S_c, S_git)>>),
   Deps(<<Dep(S_a, S_caret_1), Dep(S_b, S_caret_1), Dep(S_c, S_caret_1),
          Dep(S_d, S_caret_1), Dep(S_e, S_git), Dep(S_f, S_caret_1)>>)}

\* const batchSize = 5 of checkVulnerabilities
resolveBatchSize == 5

\* what resolveConstraint can return: null for a constraint that is not a
\* semver range and when the packument cannot be fetched, else the version
\* the registry gives
NoVersion == [t |-> "null", s |-> <<>>]
ResolveOutcomes(name, constraint) ==
  IF constraint = S_git THEN {NoVersion} ELSE {NoVersion, [t |-> "string", s |-> S_1]}

\* a call of checkVulnerabilities(deps): where it is, the loop index, the
\* packages resolved so far, how many packuments it could not fetch, and
\* what it assigned to vulnerable.value
Run(deps, at, idx, resolved, unfetched, wrote) ==
  [deps |-> deps, pc |-> at, i |-> idx, resolved |-> resolved,
   unfetched |-> unfetched, wrote |-> wrote]

\* checkVulnerabilities up to its first await
StartedRun(deps) ==
  IF deps.t = "undefined" \/ Len(deps.entries) = 0
  THEN Run(deps, "done", 0, <<>>, 0, EmptyMap)
  ELSE Run(deps, "resolving", 0, <<>>, 0, EmptyMap)

\* response.results of POST /api/osv/vulnerabilities for the resolved
\* packages, every lookup answering
ApiResults(resolved) ==
  LET vp == [j \in 1..Len(resolved) |-> Obj(Str(resolved[j].name), Str(resolved[j].version))]
      lk == [j \in 1..Len(resolved) |->
               Promise("fulfilled",
                       queryOsvForPackage(resolved[j].name, resolved[j].version,
                                          OsvDatabase(resolved[j].name, resolved[j].version)))]
  IN MergeBatch(EmptyMap, lk, vp, 1, Len(vp))

\* the component is set up: watch(..., { immediate: true }) runs the
\* callback at once
DepsInit ==
  /\ HandlerIdle
  /\ FnIdle
  /\ dependencies \in DepsChoices
  /\ watched = dependencies
  /\ runs = <<StartedRun(dependencies)>>
  /\ vulnerable = EmptyMap

\* the parent passes other dependencies
SetDependencies ==
  /\ Len(runs) < MaxRuns
  /\ \E d \in DepsChoices \ {dependencies} : dependencies' = d
  /\ UNCHANGED <<handlerVars, fnVars, watched, runs, vulnerable>>

\* the watcher sees the changed value and calls checkVulnerabilities(deps)
WatchFires ==
  /\ Len(runs) < MaxRuns
  /\ dependencies # watched
  /\ watched' = dependencies
  /\ runs' = Append(runs, StartedRun(dependencies))
  /\ vulnerable' = IF StartedRun(dependencies).pc = "done" THEN EmptyMap ELSE vulnerable
  /\ UNCHANGED <<handlerVars, fnVars, dependencies>>

\* the versions a batch resolved, in the order of the batch
RECURSIVE Kept(_, _, _)
Kept(entries, versions, k) ==
  IF k > Len(entries) THEN <<>>
  ELSE (IF versions[k].t = "string"
        THEN <<[name |-> entries[k].name, version |-> versions[k].s]>> ELSE <<>>)
       \o Kept(entries, versions, k + 1)

\* Promise.all of a batch of resolveConstraint calls resolves in run r
ResolveBatchDone(r) ==
  /\ runs[r].pc = "resolving"
  /\ LET run == runs[r]
         entries == run.deps.entries
         batch == SubSeq(entries, run.i + 1,
                         IF run.i + resolveBatchSize < Len(entries)
                         THEN run.i + resolveBatchSize ELSE Len(entries))
     IN \E versions \in [1..Len(batch) -> {NoVersion, [t |-> "string", s |-> S_1]}] :
          LET missed == Cardinality({k \in 1..Len(batch) :
                                       batch[k].constraint # S_git /\ versions[k].t = "null"})
              resolved == run.resolved \o Kept(batch, versions, 1)
          IN /\ \A k \in 1..Len(batch) :
                  versions[k] \in ResolveOutcomes(batch[k].name, batch[k].constraint)
             /\ run.unfetched + missed <= MaxUnfetched
             /\ IF run.i + resolveBatchSize < Len(entries)
                THEN /\ runs' = [runs EXCEPT ![r] =
                                   Run(run.deps, "resolving", run.i + resolveBatchSize,
                                       resolved, run.unfetched + missed, run.wrote)]
                     /\ UNCHANGED vulnerable
                ELSE IF Len(resolved) = 0
                THEN /\ runs' = [runs EXCEPT ![r] =
                                   Run(run.deps, "done", run.i + resolveBatchSize,
                                       resolved, run.unfetched + missed, EmptyMap)]
                     /\ vulnerable' = EmptyMap
                ELSE /\ runs' = [runs EXCEPT ![r] =
                                   Run(run.deps, "fetching", run.i + resolveBatchSize,
                                       resolved, run.unfetched + missed, run.wrote)]
                     /\ UNCHANGED vulnerable
  /\ UNCHANGED <<handlerVars, fnVars, dependencies, watched>>

\* $fetch('/api/osv/vulnerabilities') of run r resolves or rejects
FetchDone(r) ==
  /\ runs[r].pc = "fetching"
  /\ \E value \in {ApiResults(runs[r].resolved), EmptyMap} :
       /\ vulnerable' = value
       /\ runs' = [runs EXCEPT ![r].pc = "done", ![r].wrote = value]
  /\ UNCHANGED <<handlerVars, fnVars, dependencies, watched>>

DepsNext ==
  \/ SetDependencies
  \/ WatchFires
  \/ \E r \in 1..Len(runs) : ResolveBatchDone(r)
  \/ \E r \in 1..Len(runs) : FetchDone(r)

DepsSpec == DepsInit /\ [][DepsNext]_vars

\* ------------------------------------------------------------ properties

\* the wave sizes that n entries give: ceil(n/10) waves of 10, the last one
\* possibly smaller
ExpectedWaves(n) ==
  [k \in 1..((n + 9) \div 10) |-> IF 10 * k <= n THEN 10 ELSE n - 10 * (k - 1)]

IsPrefix(x, y) == Len(x) <= Len(y) /\ SubSeq(y, 1, Len(x)) = x

\* C1: lookups are issued in consecutive waves of the filtered list, in input
\* order: the waves started so far are the first of the ceil(n/10) waves of
\* sizes 10, ..., 10, rest; all of them have run when the handler returns its
\* map; the lookups in flight lie in the current slice of at most 10 entries,
\* every entry before the slice has settled and none after it has started.
C1_WavesOfTen ==
  /\ Cardinality(InFlight) <= 10
  /\ IsPrefix(waves, ExpectedWaves(Len(validPackages)))
  /\ response.kind = "ok" => waves = ExpectedWaves(Len(validPackages))
  /\ \A j \in 1..Len(lookup) :
       /\ j <= 10 * (Len(waves) - 1) => lookup[j].st \in {"fulfilled", "failed"}
       /\ j > 10 * Len(waves) => lookup[j].st = "idle"
       /\ (10 * (Len(waves) - 1) < j /\ j <= 10 * Len(waves)) => lookup[j].st # "idle"

\* C1 witness: a request of more than 20 valid entries has returned after
\* three waves, the last one smaller than 10
C1_Witness ==
  /\ response.kind = "ok"
  /\ Len(waves) = 3
  /\ waves[1] = 10 /\ waves[2] = 10 /\ waves[3] < 10

\* C2 (as claimed): a request whose body exists and whose packages is a list
\* never ends with an error, whatever the upstream lookups did; when it
\* returns, every wave has run and every lookup that gave at least one
\* record has its name in the returned map.
C2_AlwaysResultMap ==
  (pc = "done" /\ IsArray(body)) =>
    /\ response.kind = "ok"
    /\ Len(waves) = (Len(validPackages) + 9) \div 10
    /\ \A j \in 1..Len(lookup) :
         lookup[j].info.t = "object" => validPackages[j].name.s \in DOMAIN response.results

\* C3 (as claimed): a request without body, without packages or with a
\* packages that is not a list ends with the 400 error and its message, and
\* nothing was filtered or looked up.
C3_BadRequestFirst ==
  (pc = "done" /\ ~IsArray(body)) =>
    /\ response = BadRequest
    /\ validPackages = <<>>
    /\ waves = <<>>

\* an object with a non-empty string name and a non-empty string version
IsWellFormedEntry(p) ==
  /\ p.t = "object"
  /\ p.name.t = "string" /\ p.name.s # <<>>
  /\ p.version.t = "string" /\ p.version.s # <<>>

\* C4 (as claimed): every element of packages that is not an object with
\* non-empty string name and version, null elements included, is dropped
\* silently: the request does not fail and lookups are issued exactly for
\* the remaining entries.
C4_InvalidDroppedSilently ==
  (pc = "done" /\ IsArray(body)) =>
    /\ response.kind = "ok"
    /\ validPackages = SelectSeq(body.packages.list, IsWellFormedEntry)
    /\ Len(lookup) = Len(validPackages)

\* the packages list is missing
PackagesAbsent(b) == ~b.present \/ b.packages.t = "undefined"

\* C5 (as claimed): a request whose packages list is empty or absent, or
\* holds no valid entry, returns {results: {}} and makes no upstream lookup.
C5_NothingToLookUp ==
  (/\ pc = "done"
   /\ \/ PackagesAbsent(body)
      \/ /\ IsArray(body)
         /\ SelectSeq(body.packages.list, IsWellFormedEntry) = <<>>) =>
    /\ response = Ok(EmptyMap)
    /\ waves = <<>>

\* the entries among the first m of validPackages named name whose lookup
\* gave at least one record
Successes(name, m) ==
  {j \in 1..m : validPackages[j].name.s = name /\ lookup[j].info.t = "object"}

\* the map decided by the input list and by what each of its first m
\* lookups returned: the last success of every name
LastSuccessMap(m) ==
  LET names == {validPackages[j].name.s : j \in {k \in 1..m : Successes(validPackages[k].name.s, m) # {}}}
  IN [n \in names |->
        lookup[CHOOSE j \in Successes(n, m) : \A k \in Successes(n, m) : k <= j].info]

Min(x, y) == IF x <= y THEN x ELSE y

Swap(l, x, y) ==
  [k \in 1..Len(l) |-> IF k = x THEN l[y] ELSE IF k = y THEN l[x] ELSE l[k]]

\* C7 (as claimed): the cache key is the same for every reordering of a list
\* of (name, version) entries, also when a name occurs with several
\* versions.  Exchanges of two positions generate every reordering.
C7_KeyPermutationInvariant ==
  (/\ pc = "handler"
   /\ IsArray(body)
   /\ \A k \in 1..Len(body.packages.list) : IsWellFormedEntry(body.packages.list[k])) =>
    \A x, y \in 1..Len(body.packages.list) :
      GetKeyOutcomes(BodyList(Swap(body.packages.list, x, y))) = {key}

\* the set of (name, version) pairs of the valid entries of a list
ValidPairs(b) ==
  {<<b.packages.list[k].name.s, b.packages.list[k].version.s>> :
     k \in {m \in 1..Len(b.packages.list) : IsWellFormedEntry(b.packages.list[m])}}

\* C8 (as claimed): two requests whose lists differ in the set of valid
\* (name, version) pairs never get the same cache key.
C8_KeyInjective ==
  (pc = "handler" /\ IsArray(body)) =>
    \A b2 \in Bodies :
      (IsArray(b2) /\ ValidPairs(b2) # ValidPairs(body)) => key \notin GetKeyOutcomes(b2)

AbsentOrEmpty(b) == PackagesAbsent(b) \/ (IsArray(b) /\ b.packages.list = <<>>)

AllInvalid(b) ==
  /\ IsArray(b)
  /\ b.packages.list # <<>>
  /\ SelectSeq(b.packages.list, IsWellFormedEntry) = <<>>

\* C9 (as claimed): an absent and an empty packages list get the same
\* sentinel key, and a non-empty list whose entries are all invalid gets a
\* key different from that sentinel.
C9_EmptySentinel ==
  pc = "handler" =>
    /\ AbsentOrEmpty(body) =>
         \A b2 \in Bodies : AbsentOrEmpty(b2) => GetKeyOutcomes(b2) = {key}
    /\ AllInvalid(body) =>
         \A b2 \in Bodies : AbsentOrEmpty(b2) => key \notin GetKeyOutcomes(b2)

\* C10 (as claimed): every lookup is bounded by a timeout, so once the
\* lookups of a structurally valid request are in flight the handler
\* eventually returns a result map, even if an upstream call never answers.
C10_EventuallyReturns ==
  (IsArray(body) /\ pc = "await") ~> (response.kind = "ok")

\* the statuses of a lookup whose promise has settled
Settled == {"fulfilled", "failed"}

\* entries j and k of validPackages are the same (name, version) pair
SamePair(j, k) ==
  /\ validPackages[j].name = validPackages[k].name
  /\ validPackages[j].version = validPackages[k].version

\* a lookup that was started is not started again: it stays as it is, or
\* goes from pending to its one outcome
NoRetryStep ==
  \A j \in 1..Len(lookup) :
    lookup[j].st # "idle" =>
      /\ Len(lookup') = Len(lookup)
      /\ \/ lookup'[j] = lookup[j]
         \/ lookup[j].st = "pending" /\ lookup'[j].st \in Settled \cup {"hung"}

\* no two started lookups are for the same (name, version) pair
NoDuplicateLookups ==
  \A j, k \in 1..Len(lookup) :
    (j # k /\ lookup[j].st # "idle" /\ lookup[k].st # "idle") => ~SamePair(j, k)

\* C11: the input is deduplicated and every package is tried
\* once: within a request no (name, version) pair is looked up more than
\* once, neither by a retry nor because the pair occurs several times.
C11_OneLookupPerPair == [][NoRetryStep /\ NoDuplicateLookups']_vars

\* C16: waves are separated by a full join: the lookups in flight all belong
\* to the last wave started, a lookup starts only when no lookup is in
\* flight, and the result map changes only when no lookup is in flight.
C16_JoinBetweenWaves ==
  [][/\ InFlight \subseteq {j \in 1..Len(lookup) :
                              10 * (Len(waves) - 1) < j /\ j <= 10 * Len(waves)}
     /\ (\E j \in 1..Len(lookup') :
           /\ lookup'[j].st # "idle"
           /\ (j \in 1..Len(lookup) => lookup[j].st = "idle")) => InFlight = {}
     /\ results' # results => InFlight = {}]_vars

\* C16 witness: a second wave is in flight and the map already holds what the
\* first wave gave
C16_Witness ==
  /\ Len(waves) >= 2
  /\ InFlight # {}
  /\ DOMAIN results # {}

\* ------------------------------------------------ severity of a record
\* x is a decimal numeral: digits, then optionally a dot and digits
IsDecimal(x) ==
  \E d \in 2..(Len(x) + 1) :
    /\ \A k \in 1..(d - 1) : x[k] \in Digits
    /\ \/ d = Len(x) + 1
       \/ /\ x[d] = "."
          /\ d < Len(x)
          /\ \A k \in (d + 1)..Len(x) : x[k] \in Digits

\* where a decimal numeral that ends the string s can start: at the start of
\* s or right after a '/' or ':'
TrailingDecimalStarts(s) ==
  {p \in 1..Len(s) :
     /\ p = 1 \/ s[p - 1] \in {"/", ":"}
     /\ IsDecimal(SubSeq(s, p, Len(s)))}

RECURSIVE Pow10(_)
Pow10(n) == IF n = 0 THEN 1 ELSE 10 * Pow10(n - 1)

\* the decimal numeral x without its dot, read as a natural number
RECURSIVE Scaled(_)
Scaled(x) ==
  IF x = <<>> THEN 0
  ELSE IF Head(x) = "." THEN Scaled(Tail(x))
  ELSE DigitVal(Head(x)) * Pow10(Cardinality({k \in 2..Len(x) : x[k] # "."})) + Scaled(Tail(x))

\* the number of digits after the dot
FractionDigits(x) ==
  IF \E k \in 1..Len(x) : x[k] = "."
  THEN Len(x) - (CHOOSE k \in 1..Len(x) : x[k] = ".")
  ELSE 0

\* the decimal numeral x is at least the integer t
AtLeast(x, t) == Scaled(x) >= t * Pow10(FractionDigits(x))

EqualsIgnoringCase(x, word) ==
  Len(x) = Len(word) /\ \A k \in 1..Len(x) : LowerChar(x[k]) = word[k]

\* the level the database-specific severity string stands for, if any
DbLevel(v) ==
  IF v.dbSeverity.t # "string" THEN "none"
  ELSE IF EqualsIgnoringCase(v.dbSeverity.s, S_critical) THEN "critical"
  ELSE IF EqualsIgnoringCase(v.dbSeverity.s, S_high) THEN "high"
  ELSE IF EqualsIgnoringCase(v.dbSeverity.s, S_moderate) THEN "moderate"
  ELSE IF EqualsIgnoringCase(v.dbSeverity.s, S_medium) THEN "moderate"
  ELSE IF EqualsIgnoringCase(v.dbSeverity.s, S_low) THEN "low"
  ELSE "none"

\* the level the trailing decimal of the first CVSS score string stands for
ScoreLevel(v) ==
  IF Len(v.severity) = 0 THEN "unknown"
  ELSE IF v.severity[1].score.t # "string" THEN "unknown"
  ELSE LET s == v.severity[1].score.s
           starts == TrailingDecimalStarts(s)
       IN IF starts = {} THEN "unknown"
          ELSE LET x == SubSeq(s, CHOOSE p \in starts : TRUE, Len(s))
               IN IF AtLeast(x, 9) THEN "critical"
                  ELSE IF AtLeast(x, 7) THEN "high"
                  ELSE IF AtLeast(x, 4) THEN "moderate"
                  ELSE IF Scaled(x) > 0 THEN "low"
                  ELSE "unknown"

\* C14: getSeverityLevel is a first-match chain: a database-specific
\* severity string that, ignoring case, is critical, high, moderate, medium
\* or low decides (medium giving moderate) whatever the CVSS score is;
\* otherwise the trailing decimal s of the first CVSS score string decides,
\* s >= 9 critical, s >= 7 high, s >= 4 moderate, s > 0 low; in every other
\* case, a score of 0 and a score string without a trailing decimal
\* included, the level is unknown.
C14_SeverityChain ==
  firstLevel.returned =>
    firstLevel.value = IF DbLevel(rawVulns[1]) # "none" THEN DbLevel(rawVulns[1])
                       ELSE ScoreLevel(rawVulns[1])

\* C14 witness: an unrecognized database severity and a score of exactly 0
C14_Witness ==
  /\ firstLevel.returned
  /\ firstLevel.value = "unknown"
  /\ rawVulns[1].dbSeverity = Str(<<"n", "/", "a">>)
  /\ rawVulns[1].severity = <<[score |-> Str(<<"0", ".", "0">>)]>>

\* ----------------------------------------------------- link of a record
\* the first Len(prefix) characters of x are prefix
HasPrefix(x, prefix) ==
  /\ Len(prefix) <= Len(x)
  /\ \A k \in 1..Len(prefix) : x[k] = prefix[k]

\* C15: getVulnerabilityUrl links a record whose id starts with GHSA- to
\* the advisory page of that id, also when it has a CVE- alias; any other
\* record to the NVD page of its first alias, in the original order, that
\* starts with CVE-; and a record with no such alias, or no aliases at all,
\* to the generic upstream page of its own id.
C15_LinkChain ==
  firstUrl.returned =>
    LET id == rawVulns[1].id
        aliases == IF rawVulns[1].aliases.present THEN rawVulns[1].aliases.list ELSE <<>>
    IN \/ /\ HasPrefix(id, S_GHSA)
          /\ firstUrl.value = S_url_github \o id
       \/ /\ ~HasPrefix(id, S_GHSA)
          /\ \E k \in 1..Len(aliases) :
               /\ HasPrefix(aliases[k], S_CVE)
               /\ \A m \in 1..(k - 1) : ~HasPrefix(aliases[m], S_CVE)
               /\ firstUrl.value = S_url_nvd \o aliases[k]
       \/ /\ ~HasPrefix(id, S_GHSA)
          /\ \A k \in 1..Len(aliases) : ~HasPrefix(aliases[k], S_CVE)
          /\ firstUrl.value = S_url_osv \o id

\* C15 witness: a GHSA- id with a CVE- alias is linked to the advisory page
C15_Witness ==
  /\ firstUrl.returned
  /\ rawVulns[1].id = <<"G", "H", "S", "A", "-", "1">>
  /\ rawVulns[1].aliases = Aliases(<<<<"X", "-", "1">>, <<"C", "V", "E", "-", "2">>>>)
  /\ firstUrl.value = S_url_github \o <<"G", "H", "S", "A", "-", "1">>

\* ------------------------------------------ the summary of one package
Levels == <<"critical", "high", "moderate", "low", "unknown">>

\* critical = 0, high = 1, moderate = 2, low = 3, unknown = 4
Rank(l) == (CHOOSE k \in 1..Len(Levels) : Levels[k] = l) - 1

Bijections(n) == {f \in [1..n -> 1..n] : \A a, b \in 1..n : a # b => f[a] # f[b]}

\* C12: in every PackageVulnerabilities that queryOsvForPackage returns,
\* vulnerabilities is a permutation of the upstream records, in
\* non-decreasing severity rank, and records of the same severity keep the
\* relative order they had upstream.
C12_SortedStable ==
  (queried.returned /\ queried.value.t = "object") =>
    LET out == queried.value.vulnerabilities
        n == Len(rawVulns)
    IN /\ Len(out) = n
       /\ \A k \in 1..(n - 1) : Rank(out[k].severity) <= Rank(out[k + 1].severity)
       /\ \E f \in Bijections(n) :
            /\ \A k \in 1..n : out[k].id = rawVulns[f[k]].id
            /\ \A k, m \in 1..n :
                 (k < m /\ out[k].severity = out[m].severity) => f[k] < f[m]

\* C12 witness: an unknown record came first upstream, followed by two high
\* ones
C12_Witness ==
  /\ queried.returned
  /\ rawVulns = <<V_vector_unknown, V_ghsa_high, V_high2>>
  /\ [k \in 1..3 |-> queried.value.vulnerabilities[k].id]
       = <<V_ghsa_high.id, V_high2.id, V_vector_unknown.id>>

\* the number of listed vulnerabilities of severity l
Listed(l) ==
  Cardinality({k \in 1..Len(queried.value.vulnerabilities) :
                 queried.value.vulnerabilities[k].severity = l})

\* C13: in every PackageVulnerabilities that queryOsvForPackage returns,
\* counts.total is the length of vulnerabilities and at least 1; critical,
\* high, moderate and low each count the listed records of that severity;
\* records of unknown severity are counted in total only.
C13_CountsMatch ==
  (queried.returned /\ queried.value.t = "object") =>
    LET c == queried.value.counts
    IN /\ c.total = Len(queried.value.vulnerabilities)
       /\ c.total >= 1
       /\ c.critical = Listed("critical")
       /\ c.high = Listed("high")
       /\ c.moderate = Listed("moderate")
       /\ c.low = Listed("low")
       /\ c.total - (c.critical + c.high + c.moderate + c.low) = Listed("unknown")

\* C13 witness: a summary with a record of unknown severity
C13_Witness ==
  /\ queried.returned
  /\ queried.value.t = "object"
  /\ Listed("unknown") >= 1
  /\ queried.value.counts.total >= 2

\* ------------------------------------------------ the latest run wins
\* C17: when the dependencies change while an earlier run of
\* checkVulnerabilities is still awaiting, then once the watcher has seen the
\* latest dependencies and every run has finished, vulnerable holds what the
\* run for the latest dependencies wrote: a slower earlier run does not
\* overwrite it.
C17_LatestRunWins ==
  (/\ watched = dependencies
   /\ \A r \in 1..Len(runs) : runs[r].pc = "done") =>
    /\ runs[Len(runs)].deps = dependencies
    /\ vulnerable = runs[Len(runs)].wrote

====
